---- MODULE Spec2Model ----
(***************************************************************************)
(* Model of the L9110 servo / DC-motor driver over I2C                     *)
(* (src/MKE_M17/MKE_M17/L9110_I2C.py).                                     *)
(*                                                                         *)
(* The state is the driver object's fields (address, degree and pulse      *)
(* bounds), the bus collaborator as seen from the driver (how many block   *)
(* writes and how many close() calls it has received), the object's        *)
(* lifecycle, and a record of the latest method call: its name, its        *)
(* arguments, its return value and the bus writes it made.                 *)
(*                                                                         *)
(* Every method is one atomic action: the driver is synchronous and        *)
(* single-threaded.  The outcome of SMBus.write_i2c_block_data (return, or *)
(* raise IOError) is the action's input io_ok.  All arguments are          *)
(* integers.  Methods are called while the bus is open; what SMBus does    *)
(* with a write on a closed handle is not code of this repository.         *)
(***************************************************************************)
EXTENDS Integers, Sequences, FiniteSets

VARIABLES address, min_degree, max_degree, min_pulse, max_pulse,
          busWrites, closeCalls, phase, call

config == <<address, min_degree, max_degree, min_pulse, max_pulse>>
vars == <<address, min_degree, max_degree, min_pulse, max_pulse,
          busWrites, closeCalls, phase, call>>

(* ---- class constants (L9110_I2C.py lines 15-23) ---- *)
MODE_RC == 0
S1 == 1
S2 == 2
MODE_DC == 1
MA == 0
MB == 1
CW == 0
CCW == 1
MODE_SET_ADDR == 2

(* ---- bounds of the model ---- *)
\* the bus-write counter is capped: no method is called once it is reached
MaxWrites == 2

(* ---- arguments the methods are called with ---- *)
\* constructor addresses: the default 0x40, and 0x45
CtorAddresses == {64, 69}
\* set_address arguments: 0x3F, 0x40, 0x44, 0x45
AddressArgs == {63, 64, 68, 69}
\* (min, max) pairs: three valid ones, then min = max, min > max, min < 0
\* and max above the limit
DegreeRangeArgs ==
    {<<0, 90>>, <<90, 360>>, <<0, 360>>,
     <<90, 90>>, <<360, 90>>, <<-1, 90>>, <<0, 361>>}
PulseRangeArgs ==
    {<<0, 1000>>, <<1000, 2815>>, <<0, 2815>>,
     <<1000, 1000>>, <<2815, 1000>>, <<-1, 1000>>, <<0, 2816>>}
\* servo and motor ids are not validated by the driver: 3 and 2 are no channel
ServoIds == {S1, S2, 3}
MotorIds == {MA, MB, 2}
DegreeArgs == {-1, 0, 1, 90, 91, 180, 360, 361}
PercentArgs == {-1, 0, 50, 99, 100, 101}
DirectionArgs == {CW, CCW, 2}

(* ---- integer operators of the source ---- *)
\* n >> 8 and n & 0xFF, for n >= 0
Shr8(n) == n \div 256
And255(n) == n % 256

RECURSIVE sum(_)
sum(data) == IF data = <<>> THEN 0 ELSE Head(data) + sum(Tail(data))

\* a mapping that forgets the output offset
map_range_no_offset(x, in_min, in_max, out_min, out_max) ==
    ((x - in_min) * (out_max - out_min)) \div (in_max - in_min)

\* _map_range: * and // associate to the left, // floors
map_range(x, in_min, in_max, out_min, out_max) ==
    ((x - in_min) * (out_max - out_min)) \div (in_max - in_min) + out_min

(* ---- validation conditions ---- *)
\* a check that lets min = max through
degree_range_valid_nonstrict(mn, mx) == 0 <= mn /\ mn <= mx /\ mx <= 360

\* set_range_degree, line 78: 0 <= min_degree < max_degree <= 360
degree_range_valid(mn, mx) == 0 <= mn /\ mn < mx /\ mx <= 360

\* a check that forgets the upper limit
pulse_range_valid_no_limit(mn, mx) == 0 <= mn /\ mn < mx

\* set_range_pulse, line 95: 0 <= min_pulse < max_pulse <= 2815
pulse_range_valid(mn, mx) == 0 <= mn /\ mn < mx /\ mx <= 2815

\* control_servo, line 128: min_degree <= degree <= max_degree
degree_valid(degree) == min_degree <= degree /\ degree <= max_degree

\* a check that forgets the direction
motor_params_valid_no_direction(percent, direction) ==
    0 <= percent /\ percent <= 100

\* control_motor, lines 151 and 154
motor_params_valid(percent, direction) ==
    /\ 0 <= percent /\ percent <= 100
    /\ direction \in {CW, CCW}

\* set_address, line 174: 0x40 <= new_address <= 0x44
address_valid(new_address) == 64 <= new_address /\ new_address <= 68

(* ---- frame assembly ---- *)
\* a checksum that is not masked to one byte
checksum_unmasked(data) == sum(data)

\* sum(data) & 0xFF, taken while data[4] is still 0 (lines 136, 161)
checksum(data) == And255(sum(data))

\* control_servo, lines 132-136
servo_data(servo_id, degree) ==
    LET pulse == map_range(degree, min_degree, max_degree, min_pulse, max_pulse)
        data == <<MODE_RC, servo_id, Shr8(pulse), And255(pulse), 0>>
    IN  [data EXCEPT ![5] = checksum(data)]

\* a speed byte scaled to 256 instead of 255
motor_data_256(motor_id, percent, direction) ==
    LET data == <<MODE_DC, motor_id, map_range(percent, 0, 100, 0, 256),
                  direction, 0>>
    IN  [data EXCEPT ![5] = checksum(data)]

\* control_motor, lines 158-161
motor_data(motor_id, percent, direction) ==
    LET data == <<MODE_DC, motor_id, map_range(percent, 0, 100, 0, 255),
                  direction, 0>>
    IN  [data EXCEPT ![5] = checksum(data)]

\* set_address, line 178: the last byte is new_address + MODE_SET_ADDR, unmasked
address_data(new_address) ==
    <<MODE_SET_ADDR, 0, 0, 0, new_address + MODE_SET_ADDR>>

(* ---- transmit ---- *)
\* one call of bus.write_i2c_block_data(self.address, data[0], data[1:])
bus_write(data, io_ok) ==
    [dev |-> address, reg |-> Head(data), payload |-> Tail(data), ok |-> io_ok]

\* a transmit that tries a second time after an IOError
send_data_retry(data, io_ok) ==
    [writes |-> IF io_ok THEN <<bus_write(data, io_ok)>>
                ELSE <<bus_write(data, io_ok), bus_write(data, io_ok)>>,
     ret |-> io_ok]

\* _send_data, lines 111-116: one bus write; True, or False on IOError
send_data(data, io_ok) ==
    [writes |-> <<bus_write(data, io_ok)>>, ret |-> io_ok]

\* what a call that stops at a failed validation does: no write, False
rejected == [writes |-> <<>>, ret |-> FALSE]

(* ---- the methods ---- *)
\* the bus is open and the write counter is below its cap
Callable == phase = "open" /\ busWrites < MaxWrites

\* the record of the call, and the bus's write count
Returns(op, args, r) ==
    /\ call' = [op |-> op, args |-> args, ret |-> r.ret, writes |-> r.writes]
    /\ busWrites' = busWrites + Len(r.writes)

set_range_degree(mn, mx) ==
    /\ Callable
    /\ IF ~degree_range_valid(mn, mx)
       THEN /\ UNCHANGED <<min_degree, max_degree>>
            /\ Returns("set_range_degree", <<mn, mx>>, rejected)
       ELSE /\ min_degree' = mn
            /\ max_degree' = mx
            /\ Returns("set_range_degree", <<mn, mx>>,
                       [writes |-> <<>>, ret |-> TRUE])
    /\ UNCHANGED <<address, min_pulse, max_pulse, closeCalls, phase>>

set_range_pulse(mn, mx) ==
    /\ Callable
    /\ IF ~pulse_range_valid(mn, mx)
       THEN /\ UNCHANGED <<min_pulse, max_pulse>>
            /\ Returns("set_range_pulse", <<mn, mx>>, rejected)
       ELSE /\ min_pulse' = mn
            /\ max_pulse' = mx
            /\ Returns("set_range_pulse", <<mn, mx>>,
                       [writes |-> <<>>, ret |-> TRUE])
    /\ UNCHANGED <<address, min_degree, max_degree, closeCalls, phase>>

control_servo(servo_id, degree, io_ok) ==
    /\ Callable
    /\ IF ~degree_valid(degree)
       THEN Returns("control_servo", <<servo_id, degree>>, rejected)
       ELSE Returns("control_servo", <<servo_id, degree>>,
                    send_data(servo_data(servo_id, degree), io_ok))
    /\ UNCHANGED <<config, closeCalls, phase>>

control_motor(motor_id, percent, direction, io_ok) ==
    /\ Callable
    /\ IF ~motor_params_valid(percent, direction)
       THEN Returns("control_motor", <<motor_id, percent, direction>>, rejected)
       ELSE Returns("control_motor", <<motor_id, percent, direction>>,
                    send_data(motor_data(motor_id, percent, direction), io_ok))
    /\ UNCHANGED <<config, closeCalls, phase>>

\* a set_address that stores the new address before the frame is acknowledged
set_address_eager(new_address, io_ok) ==
    /\ Callable
    /\ IF ~address_valid(new_address)
       THEN /\ address' = address
            /\ Returns("set_address", <<new_address>>, rejected)
       ELSE LET r == send_data(address_data(new_address), io_ok)
            IN  /\ address' = new_address
                /\ Returns("set_address", <<new_address>>, r)
    /\ UNCHANGED <<min_degree, max_degree, min_pulse, max_pulse,
                   closeCalls, phase>>

\* set_address, lines 174-183: the frame goes to the old address
set_address(new_address, io_ok) ==
    /\ Callable
    /\ IF ~address_valid(new_address)
       THEN /\ address' = address
            /\ Returns("set_address", <<new_address>>, rejected)
       ELSE LET r == send_data(address_data(new_address), io_ok)
            IN  /\ address' = IF r.ret THEN new_address ELSE address
                /\ Returns("set_address", <<new_address>>, r)
    /\ UNCHANGED <<min_degree, max_degree, min_pulse, max_pulse,
                   closeCalls, phase>>

(* ---- lifecycle ---- *)
\* __exit__, line 47: self.bus.close() on leaving the with-block
exit ==
    /\ phase = "open"
    /\ phase' = "exited"
    /\ closeCalls' = closeCalls + 1
    /\ call' = [op |-> "__exit__", args |-> <<>>, ret |-> TRUE, writes |-> <<>>]
    /\ UNCHANGED <<config, busWrites>>

\* __del__, line 51: self.bus.close() again, whether or not __exit__ ran
del ==
    /\ phase \in {"open", "exited"}
    /\ phase' = "deleted"
    /\ closeCalls' = closeCalls + 1
    /\ call' = [op |-> "__del__", args |-> <<>>, ret |-> TRUE, writes |-> <<>>]
    /\ UNCHANGED <<config, busWrites>>

(* ---- the specification ---- *)
\* __init__, lines 32-39, for any address argument
Init ==
    /\ address \in CtorAddresses
    /\ min_degree = 0
    /\ max_degree = 180
    /\ min_pulse = 500
    /\ max_pulse = 2500
    /\ busWrites = 0
    /\ closeCalls = 0
    /\ phase = "open"
    /\ call = [op |-> "__init__", args |-> <<address>>, ret |-> TRUE,
               writes |-> <<>>]

Next ==
    \/ \E r \in DegreeRangeArgs : set_range_degree(r[1], r[2])
    \/ \E r \in PulseRangeArgs : set_range_pulse(r[1], r[2])
    \/ \E s \in ServoIds, d \in DegreeArgs, io_ok \in BOOLEAN :
          control_servo(s, d, io_ok)
    \/ \E m \in MotorIds, p \in PercentArgs, d \in DirectionArgs, io_ok \in BOOLEAN :
          control_motor(m, p, d, io_ok)
    \/ \E a \in AddressArgs, io_ok \in BOOLEAN : set_address(a, io_ok)
    \/ exit
    \/ del

Spec == Init /\ [][Next]_vars

(* ---- properties ---- *)
\* the 5-byte frame of a bus write: the register byte, then the payload
FrameOf(w) == <<w.reg>> \o w.payload

\* C1: the stored address changes only in a set_address call whose SET_ADDR
\* frame for that value was written to the old address and acknowledged; a
\* set_address with an address in 0x40..0x44 writes its frame to the address
\* stored before the call, stores the new address and returns True if the
\* write succeeded, and returns False with the address unchanged if it failed.
C1_AddressFollowsAcknowledgedWrite ==
    [][ /\ address' # address =>
              /\ call'.op = "set_address"
              /\ call'.args = <<address'>>
              /\ call'.ret
              /\ Len(call'.writes) = 1
              /\ call'.writes[1].ok
              /\ call'.writes[1].dev = address
              /\ FrameOf(call'.writes[1]) = <<2, 0, 0, 0, address' + 2>>
        /\ (call'.op = "set_address" /\ call'.args[1] \in 64..68) =>
              /\ Len(call'.writes) = 1
              /\ call'.writes[1].dev = address
              /\ IF call'.writes[1].ok
                 THEN call'.ret /\ address' = call'.args[1]
                 ELSE ~call'.ret /\ address' = address
      ]_vars

\* a set_address whose write failed: the stored address is not the new one
C1_Witness ==
    /\ call.op = "set_address"
    /\ call.args[1] \in 64..68
    /\ Len(call.writes) = 1
    /\ ~call.writes[1].ok
    /\ ~call.ret
    /\ address # call.args[1]
    /\ call.writes[1].dev = address

\* C2: a control_servo call with a degree outside the stored bounds, a
\* control_motor call with percent outside 0..100 or a direction other than
\* CW and CCW, and a set_address call with an address outside 0x40..0x44
\* return False, write nothing to the bus, and leave the write count, the
\* address and the degree and pulse bounds as they were.
C2_RejectedCallsLeaveNoTrace ==
    [][ LET a == call'.args
            invalid ==
              \/ call'.op = "control_servo"
                   /\ (a[2] < min_degree \/ a[2] > max_degree)
              \/ call'.op = "control_motor"
                   /\ (a[2] < 0 \/ a[2] > 100 \/ a[3] \notin {0, 1})
              \/ call'.op = "set_address"
                   /\ (a[1] < 64 \/ a[1] > 68)
        IN  invalid =>
              /\ ~call'.ret
              /\ call'.writes = <<>>
              /\ busWrites' = busWrites
              /\ config' = config
      ]_vars

\* a control_motor call with a valid percent and the direction 2 was rejected
C2_Witness ==
    /\ call.op = "control_motor"
    /\ call.args[2] = 50
    /\ call.args[3] = 2
    /\ ~call.ret
    /\ call.writes = <<>>

\* C3: set_range_degree(min, max) returns True exactly when
\* 0 <= min < max <= 360 and then stores (min, max) as the degree bounds;
\* set_range_pulse(min, max) returns True exactly when 0 <= min < max <= 2815
\* and then stores (min, max) as the pulse bounds.  Otherwise the call returns
\* False and all bounds are unchanged.  Neither changes the address nor
\* writes to the bus.
C3_RangeSetters ==
    [][ LET mn == call'.args[1]
            mx == call'.args[2]
        IN  /\ call'.op = "set_range_degree" =>
                  /\ call'.ret = (0 <= mn /\ mn < mx /\ mx <= 360)
                  /\ <<min_degree', max_degree'>> =
                        IF call'.ret THEN <<mn, mx>>
                        ELSE <<min_degree, max_degree>>
                  /\ UNCHANGED <<min_pulse, max_pulse, address, busWrites>>
                  /\ call'.writes = <<>>
            /\ call'.op = "set_range_pulse" =>
                  /\ call'.ret = (0 <= mn /\ mn < mx /\ mx <= 2815)
                  /\ <<min_pulse', max_pulse'>> =
                        IF call'.ret THEN <<mn, mx>>
                        ELSE <<min_pulse, max_pulse>>
                  /\ UNCHANGED <<min_degree, max_degree, address, busWrites>>
                  /\ call'.writes = <<>>
      ]_vars

\* a set_range_degree call that replaced the default bounds
C3_Witness ==
    /\ call.op = "set_range_degree"
    /\ call.ret
    /\ call.args = <<90, 360>>
    /\ <<min_degree, max_degree>> = <<90, 360>>

\* C4: in every reachable state 0 <= min_degree < max_degree <= 360 and
\* 0 <= min_pulse < max_pulse <= 2815.
C4_ConfigInvariant ==
    /\ 0 <= min_degree /\ min_degree < max_degree /\ max_degree <= 360
    /\ 0 <= min_pulse /\ min_pulse < max_pulse /\ max_pulse <= 2815

\* both ranges were replaced, up to their limits, and a call came after
C4_Witness ==
    /\ <<min_degree, max_degree>> = <<90, 360>>
    /\ <<min_pulse, max_pulse>> = <<1000, 2815>>
    /\ call.op = "control_servo"

\* C5: every frame written to the bus has 5 elements, each a byte (for a
\* servo or motor id that is a channel); the last one of a servo (mode 0) or
\* motor (mode 1) frame is the sum of the first four, masked to 8 bits; an
\* address-change frame (mode 2) is [2, 0, 0, 0, (new_address + 2) & 0xFF].
C5_FrameChecksum ==
    \A i \in 1..Len(call.writes) :
        LET f == FrameOf(call.writes[i])
        IN  /\ Len(f) = 5
            /\ \A j \in 1..5 : f[j] \in 0..255
            /\ call.op \in {"control_servo", "control_motor", "set_address"}
            /\ call.op = "control_servo" => f[1] = 0
            /\ call.op = "control_motor" => f[1] = 1
            /\ call.op = "set_address" => f[1] = 2
            /\ f[1] \in {0, 1} => f[5] = (f[1] + f[2] + f[3] + f[4]) % 256
            /\ f[1] = 2 =>
                  f = <<2, 0, 0, 0, (call.args[1] + 2) % 256>>

\* a servo frame whose first four bytes sum to more than one byte holds
C5_Witness ==
    /\ call.op = "control_servo"
    /\ Len(call.writes) = 1
    /\ LET f == FrameOf(call.writes[1])
       IN  f[1] + f[2] + f[3] + f[4] > 255

\* C6: control_servo(channel, degree) with channel in {S1, S2} and
\* min_degree <= degree <= max_degree writes the frame
\* [0, channel, pulse >> 8, pulse & 0xFF, checksum], where pulse is
\* floor((degree - min_degree) * (max_pulse - min_pulse)
\*       / (max_degree - min_degree)) + min_pulse
\* for the bounds stored when the call is made; degree = min_degree gives
\* min_pulse, degree = max_degree gives max_pulse, and control_servo(S1, 90)
\* with the default bounds writes [0, 1, 5, 220, 226].
C6_ServoFrame ==
    [][ LET channel == call'.args[1]
            degree == call'.args[2]
        IN  (/\ call'.op = "control_servo"
             /\ channel \in {1, 2}
             /\ min_degree <= degree /\ degree <= max_degree) =>
              /\ Len(call'.writes) = 1
              /\ LET f == FrameOf(call'.writes[1])
                     pulse == f[3] * 256 + f[4]
                     q == pulse - min_pulse
                     num == (degree - min_degree) * (max_pulse - min_pulse)
                     den == max_degree - min_degree
                 IN  /\ Len(f) = 5
                     /\ f[1] = 0
                     /\ f[2] = channel
                     /\ f[3] >= 0 /\ f[4] \in 0..255
                     /\ q * den <= num /\ num < (q + 1) * den
                     /\ f[5] = (f[1] + f[2] + f[3] + f[4]) % 256
                     /\ degree = min_degree => pulse = min_pulse
                     /\ degree = max_degree => pulse = max_pulse
                     /\ (/\ config = <<address, 0, 180, 500, 2500>>
                         /\ call'.args = <<1, 90>>) =>
                           f = <<0, 1, 5, 220, 226>>
      ]_vars

\* a servo frame under replaced bounds, where the division is inexact:
\* floor(1 * 1815 / 270) + 1000 = 1006
C6_Witness ==
    /\ call.op = "control_servo"
    /\ call.args = <<1, 91>>
    /\ config = <<address, 90, 360, 1000, 2815>>
    /\ Len(call.writes) = 1
    /\ FrameOf(call.writes[1]) = <<0, 1, 3, 238, 242>>

\* C7: control_motor(channel, percent, direction) with channel in {MA, MB},
\* 0 <= percent <= 100 and direction in {CW, CCW} writes the frame
\* [1, channel, floor(percent * 255 / 100), direction, checksum], whatever
\* the degree and pulse bounds; the speed byte is in 0..255, 0 for percent 0
\* and 255 for percent 100, and control_motor(MA, 50, CW) writes
\* [1, 0, 127, 0, 128].
C7_MotorFrame ==
    LET channel == call.args[1]
        percent == call.args[2]
        direction == call.args[3]
    IN  (/\ call.op = "control_motor"
         /\ channel \in {0, 1}
         /\ 0 <= percent /\ percent <= 100
         /\ direction \in {0, 1}) =>
          /\ Len(call.writes) = 1
          /\ LET f == FrameOf(call.writes[1])
                 speed == f[3]
             IN  /\ Len(f) = 5
                 /\ f[1] = 1
                 /\ f[2] = channel
                 /\ speed \in 0..255
                 /\ speed * 100 <= percent * 255
                 /\ percent * 255 < (speed + 1) * 100
                 /\ f[4] = direction
                 /\ f[5] = (f[1] + f[2] + f[3] + f[4]) % 256
                 /\ percent = 0 => speed = 0
                 /\ percent = 100 => speed = 255
                 /\ call.args = <<0, 50, 0>> => f = <<1, 0, 127, 0, 128>>

\* a motor frame with an inexact speed, written under replaced bounds
C7_Witness ==
    /\ call.op = "control_motor"
    /\ call.args = <<1, 99, 1>>
    /\ config = <<address, 90, 360, 1000, 2815>>
    /\ Len(call.writes) = 1
    /\ FrameOf(call.writes[1]) = <<1, 1, 252, 1, 255>>

C9_CloseAtMostOnce == closeCalls <= 1

\* C10: the stored address is within 0x40..0x44 in every reachable state,
\* for any constructor argument, and every bus write goes to such an address.
C10_AddressInDeviceRange ==
    /\ address \in 64..68
    /\ \A i \in 1..Len(call.writes) : call.writes[i].dev \in 64..68

====
